---- MODULE Spec2Model ----
(***************************************************************************)
(* Model of the NVMe-oF target wrapper (spdk/src/nvmf/target.rs) and of    *)
(* the status conversion macros (spdk-sys/src/macros.rs).                  *)
(*                                                                         *)
(* One reactor runs every task: a task runs until it suspends at a Promise *)
(* await, and the collaborator's callbacks run on the same reactor between *)
(* task steps.  The collaborator (the storage runtime behind the spdk_*    *)
(* primitives) is modelled by the outcomes its interface allows.           *)
(***************************************************************************)
EXTENDS Integers, Sequences, FiniteSets, TLC

\* ------------------------------------------------------------------------
\* Bounds
\* ------------------------------------------------------------------------
MaxTargets == 2
MaxTransports == 2
MaxSubsystems == 3
MaxCalls == 4
RawSpan == 24

\* ------------------------------------------------------------------------
\* Program constants
\* ------------------------------------------------------------------------
Null == 0
EAGAIN == 11
ENOMEM == 12
EINPROGRESS == 115
I32Max == 2147483647

TargetIds == 1..MaxTargets
TransportIds == 1..MaxTransports
SubsysIds == 1..MaxSubsystems

\* ------------------------------------------------------------------------
\* Status codes and results
\* ------------------------------------------------------------------------
Ok == [tag |-> "Ok", val |-> 0]
Err(e) == [tag |-> "Err", val |-> e]
Unreachable == [tag |-> "Unreachable", val |-> 0]
None == [tag |-> "None", val |-> 0]

\* The least i32.
I32Min == -I32Max - 1

\* Negation of an i32 as the release build computes it (two's complement).
WrappingNeg(e) == IF e = I32Min THEN e ELSE -e

\* macro to_result!: 0 -> Ok(()), e < 0 -> Err(Errno(-e)), otherwise
\* unreachable!().
to_result(r) ==
  IF r = 0 THEN Ok
  ELSE IF r < 0 THEN Err(WrappingNeg(r))
  ELSE Unreachable

\* Ok(size) of to_result_size!.
OkSize(n) == [tag |-> "Ok", val |-> n]

\* The panic of a build with overflow checks on a negation that overflows.
OverflowPanic == [tag |-> "OverflowPanic", val |-> 0]

\* macro to_result_size!: e < 0 -> Err(Errno(-e)), s -> Ok(s as usize).
to_result_size(r) == IF r < 0 THEN Err(WrappingNeg(r)) ELSE OkSize(r)

\* -e on an i32 overflows for the least i32 alone: a build with overflow
\* checks panics there, a build without them wraps.
NegOverflows(e) == e = I32Min

\* What the macros can produce on r, over both kinds of build.
ToResultOutcomes(r) ==
  IF r < 0 /\ NegOverflows(r) THEN {to_result(r), OverflowPanic} ELSE {to_result(r)}
ToResultSizeOutcomes(r) ==
  IF r < 0 /\ NegOverflows(r) THEN {to_result_size(r), OverflowPanic} ELSE {to_result_size(r)}

\* Raw i32 return values the macros are applied to: the values around zero,
\* the errno values in use and the ends of the i32 range.
RawStatuses ==
  (-RawSpan..RawSpan) \cup {I32Min, I32Min + 1, -EINPROGRESS, EINPROGRESS, I32Max}

\* task::complete_with_status(cx, status): resolves the token with the
\* converted status.  task::complete_with_ok(cx): resolves it with Ok(()).
complete_with_status(status) == to_result(status)
complete_with_ok == Ok

\* Completion statuses the collaborator hands to a callback.
CompletionStatuses == {0, -EAGAIN, -ENOMEM}
FailureStatuses == CompletionStatuses \ {0}

\* Completion statuses of a transport's destroy.
TeardownStatuses == {0, -EAGAIN}

\* ------------------------------------------------------------------------
\* Sequences as natively-linked collections
\* ------------------------------------------------------------------------
Range(s) == {s[i] : i \in 1..Len(s)}

IndexOf(s, h) == CHOOSE i \in 1..Len(s) : s[i] = h

\* get-first primitive: the head of the linkage or null.
GetFirst(list) == IF list = <<>> THEN Null ELSE list[1]

\* get-next primitive on a handle that is linked in the collection.
GetNextLinked(list, h) ==
  IF IndexOf(list, h) = Len(list) THEN Null ELSE list[IndexOf(list, h) + 1]

\* get-next primitive.  On a handle that is no longer linked the read is a
\* use after free: it yields null or any handle.  Handles the traversal has
\* been through already are left out so that a traversal stays finite.
GetNextSet(list, h, all, visited) ==
  IF h \in Range(list) THEN {GetNextLinked(list, h)}
  ELSE {Null} \cup (all \ visited)

VARIABLES
  targets,     \* the collaborator's linked list of targets
  tlist,       \* transports linked into the target, in linkage order
  thandle,     \* per transport: what became of the caller's Transport value
  tdestroys,   \* per transport: how many times it has been destroyed
  slist,       \* subsystems linked into the target, in linkage order
  slife,       \* per subsystem: "free", "live", "destroying" or "destroyed"
  sstate,      \* per subsystem: "Inactive", "Active" or "Paused"
  at,          \* the add_transport call
  rs,          \* the remove_subsystem call
  batch,       \* the start/stop/pause/resume_subsystems call
  iter,        \* an iterator held by the caller
  calls,       \* how many calls the callers have made
  conv,        \* the last status conversion: the macro, its input and output
  sattr,       \* per subsystem: its name, subtype and allow-any-host setting
  created      \* the last add_subsystem or enable_discovery call and its return

vars == <<targets, tlist, thandle, tdestroys, slist, slife, sstate, at, rs, batch, iter, calls, conv, sattr, created>>

\* The reactor is free: no task is in the middle of a run.  A batch call in
\* its loop runs until it suspends or returns; nothing else runs meanwhile.
Yielded == batch.pc # "loop"

\* The Target the methods are called on.
HaveTarget == targets # <<>>

\* A caller makes one more call.
OneMoreCall == calls < MaxCalls /\ calls' = calls + 1

\* ------------------------------------------------------------------------
\* Target::add_transport
\* ------------------------------------------------------------------------
AtIdle ==
  [pc |-> "idle", t |-> Null, inline |-> FALSE,
   status |-> 0, slot |-> None, fired |-> 0, cbPending |-> FALSE,
   dstatus |-> 0, dslot |-> None, dfired |-> 0,
   dcbPending |-> FALSE, resolved |-> 0, dresolved |-> 0, result |-> None]

\* The transport world: the call and what it acts on.
TWorld == [at |-> at, tlist |-> tlist, thandle |-> thandle, tdestroys |-> tdestroys]

\* Collaborator: the add-transport completion fires with status st.  A
\* successful add links the transport into the target.
CompleteAdd(w, st) ==
  [w EXCEPT !.at.status = st,
            !.at.slot = complete_with_status(st),
            !.at.fired = @ + 1,
            !.at.cbPending = FALSE,
            !.tlist = IF st = 0 THEN Append(@, w.at.t) ELSE @]

\* Collaborator: the transport-destroy completion fires with status dst.  A
\* successful destroy frees the transport.
CompleteDestroy(w, dst) ==
  [w EXCEPT !.at.dstatus = dst,
            !.at.dslot = complete_with_status(dst),
            !.at.dfired = @ + 1,
            !.at.dcbPending = FALSE,
            !.tdestroys[w.at.t] = IF dst = 0 THEN @ + 1 ELSE @]

\* What the Ok arm does with the caller's Transport value: mem::forget.
OkDisposition_Drop == "dropped"
OkDisposition == "forgotten"

\* The Ok arm of the match (lines 101-107).  A Transport value that is
\* dropped instead of forgotten destroys the transport in its destructor.
OkArm(w) ==
  [w EXCEPT !.at.pc = "done",
            !.at.resolved = @ + 1,
            !.at.result = Ok,
            !.thandle[w.at.t] = OkDisposition,
            !.tdestroys[w.at.t] = IF OkDisposition = "dropped" THEN @ + 1 ELSE @]

\* What the Err arm returns once the teardown is through: the add's error.
ErrArmResult_Teardown(addRes, destroyRes) == destroyRes
ErrArmResult(addRes, destroyRes) == addRes

\* expect("transport destroyed") on the destroy's result (line 112): whether
\* the call goes on; it panics otherwise.
DestroyExpect_Ignore(dres) == TRUE
DestroyExpect(dres) == dres = Ok

\* The Err arm after the destroy's Promise has resolved (lines 112-114):
\* expect() panics on a failed destroy, otherwise the add's error is returned.
AfterDestroy(w) ==
  IF DestroyExpect(w.at.dslot)
  THEN [w EXCEPT !.at.pc = "done",
                 !.at.dresolved = @ + 1,
                 !.at.result = ErrArmResult(w.at.slot, w.at.dslot)]
  ELSE [w EXCEPT !.at.pc = "panicked", !.at.dresolved = @ + 1]

\* The Err arm up to its first suspension (line 112): transport.destroy()
\* consumes the value and registers the destroy; the collaborator completes
\* it inside the registration or later.
ErrArm(w, dinline, dst) ==
  LET w1 == [w EXCEPT !.at.resolved = @ + 1,
                      !.thandle[w.at.t] = "consumed"]
  IN IF dinline
     THEN AfterDestroy(CompleteDestroy(w1, dst))
     ELSE [w1 EXCEPT !.at.pc = "destroy_pending", !.at.dcbPending = TRUE]

\* The match on the add's result (lines 100-116).
AfterAdd(w, dinline, dst) ==
  IF w.at.slot = Ok THEN OkArm(w) ELSE ErrArm(w, dinline, dst)

SetTWorld(w) ==
  /\ at' = w.at
  /\ tlist' = w.tlist
  /\ thandle' = w.thandle
  /\ tdestroys' = w.tdestroys

\* The transport the next call is given: a Transport the caller has made
\* and not yet passed in.
FreshTransport ==
  IF \E t \in TransportIds : thandle[t] = "none"
  THEN CHOOSE t \in TransportIds :
         thandle[t] = "none" /\ \A u \in TransportIds : thandle[u] = "none" => t <= u
  ELSE Null

\* Whether the registration hands the add primitive a completion to fire:
\* Some(complete_with_status) and the Promise's context (lines 92-93).
AddRegistersCompletion_Not == FALSE
AddRegistersCompletion == TRUE

\* add_transport is called: the first poll of the Promise runs the
\* registration (lines 87-98), and the call runs on while nothing suspends.
AddTransportCall ==
  /\ OneMoreCall
  /\ Yielded /\ HaveTarget
  /\ at.pc = "idle"
  /\ FreshTransport # Null
  /\ \E inline \in BOOLEAN, st \in CompletionStatuses,
        dinline \in BOOLEAN, dst \in TeardownStatuses :
       LET w0 == [TWorld EXCEPT !.at.t = FreshTransport,
                                !.at.inline = inline,
                                !.thandle[FreshTransport] = "caller"]
       IN IF inline /\ AddRegistersCompletion
          THEN SetTWorld(AfterAdd(CompleteAdd(w0, st), dinline, dst))
          ELSE SetTWorld([w0 EXCEPT !.at.pc = "add_pending",
                                    !.at.cbPending = AddRegistersCompletion])
  /\ UNCHANGED <<targets, slist, slife, sstate, rs, batch, conv, sattr, created>>
  /\ iter' = IF iter.kind = "transports" /\ tlist' # tlist
             THEN [iter EXCEPT !.stable = FALSE] ELSE iter

\* The collaborator fires the deferred add-transport completion.
AddTransportCallback ==
  /\ Yielded
  /\ at.cbPending
  /\ \E st \in CompletionStatuses : SetTWorld(CompleteAdd(TWorld, st))
  /\ UNCHANGED <<targets, slist, slife, sstate, rs, batch, calls, conv, sattr, created>>
  /\ iter' = IF iter.kind = "transports" /\ tlist' # tlist
             THEN [iter EXCEPT !.stable = FALSE] ELSE iter

\* The woken task polls the add's Promise again and runs the match.
AddTransportResume ==
  /\ Yielded
  /\ at.pc = "add_pending"
  /\ at.slot # None
  /\ \E dinline \in BOOLEAN, dst \in TeardownStatuses :
       SetTWorld(AfterAdd(TWorld, dinline, dst))
  /\ UNCHANGED <<targets, slist, slife, sstate, rs, batch, iter, calls, conv, sattr, created>>

\* The collaborator fires the deferred transport-destroy completion.
TransportDestroyCallback ==
  /\ Yielded
  /\ at.dcbPending
  /\ \E dst \in TeardownStatuses : SetTWorld(CompleteDestroy(TWorld, dst))
  /\ UNCHANGED <<targets, slist, slife, sstate, rs, batch, iter, calls, conv, sattr, created>>

\* The woken task polls the destroy's Promise again and leaves the Err arm.
AddTransportResumeDestroy ==
  /\ Yielded
  /\ at.pc = "destroy_pending"
  /\ at.dslot # None
  /\ SetTWorld(AfterDestroy(TWorld))
  /\ UNCHANGED <<targets, slist, slife, sstate, rs, batch, iter, calls, conv, sattr, created>>

\* The caller takes the result; another add_transport may follow.
AddTransportReturn ==
  /\ Yielded
  /\ at.pc = "done"
  /\ ~at.cbPending /\ ~at.dcbPending
  /\ at' = AtIdle
  /\ UNCHANGED <<targets, tlist, thandle, tdestroys, slist, slife, sstate, rs, batch, iter, calls, conv, sattr, created>>

\* ------------------------------------------------------------------------
\* Subsystems: creation and the collaborator's state machine
\* ------------------------------------------------------------------------
SubsysStates == {"Inactive", "Active", "Paused"}

Unlink(list, h) == SelectSeq(list, LAMBDA x : x # h)

\* The handle the creation primitive returns: a subsystem not yet in use.
FreshSubsystem ==
  IF \E s \in SubsysIds : slife[s] = "free"
  THEN CHOOSE s \in SubsysIds :
         slife[s] = "free" /\ \A u \in SubsysIds : slife[u] = "free" => s <= u
  ELSE Null

\* A handle to a subsystem that does not exist (any more): using it reads
\* freed memory.
Dangling(s) == slife[s] \notin {"live", "destroying"}

\* A traversal in progress sees the collection change under it.
NoteSubsystemsChanged(b) == IF b.pc # "idle" THEN [b EXCEPT !.stable = FALSE] ELSE b
NoteIterChanged(i, kind) == IF i.kind = kind THEN [i EXCEPT !.stable = FALSE] ELSE i

\* Names of subsystems: the well-known discovery NQN and the names a caller
\* gives to its own subsystems.
DiscoveryNqn == <<"discovery", 0>>
AppNqn(k) == <<"cnode", k>>
NoNqn == <<"", 0>>

\* Attributes of a subsystem: a created subsystem has its name and subtype
\* and does not allow any host until it is told to.
AttrNone == [nqn |-> NoNqn, subtype |-> "none", allow_any_host |-> FALSE]

NqnInUse(nqn) ==
  \E s \in SubsysIds : slife[s] \in {"live", "destroying"} /\ sattr[s].nqn = nqn

\* The name a caller passes to add_subsystem: a name in use or the next one.
AppNqnChoices ==
  {AppNqn(k) : k \in {j \in SubsysIds : \A i \in 1..(j-1) : NqnInUse(AppNqn(i))}}

\* The creation primitive: a new handle, or null when the name is in use, the
\* target is full or memory is short.
CreateSubsystem(nqn) ==
  IF NqnInUse(nqn) \/ FreshSubsystem = Null THEN {Null} ELSE {Null, FreshSubsystem}

\* Target::add_subsystem's return: Err(ENOMEM) for a null handle, else the
\* Subsystem around the handle.
AddSubsystemResult_NoNullCheck(h) == Ok
AddSubsystemResult(h) == IF h = Null THEN Err(ENOMEM) ELSE Ok

\* The value enable_discovery passes to allow_any_host.
DiscoveryAllowAnyHost_False == FALSE
DiscoveryAllowAnyHost == TRUE

CreatedNone == [api |-> "none", h |-> Null, res |-> None]

\* The creation of a subsystem by api: the primitive returned h; then, for
\* enable_discovery alone and after the ? on the result, allow_any_host.
Create(api, nqn, subtype, h) ==
  LET res == AddSubsystemResult(h)
      allow == IF api = "enable_discovery" /\ res = Ok
               THEN DiscoveryAllowAnyHost ELSE FALSE
  IN /\ created' = [api |-> api, h |-> h, res |-> res]
     /\ IF h # Null
        THEN /\ slist' = Append(slist, h)
             /\ slife' = [slife EXCEPT ![h] = "live"]
             /\ sstate' = [sstate EXCEPT ![h] = "Inactive"]
             /\ sattr' = [sattr EXCEPT ![h] = [nqn |-> nqn, subtype |-> subtype,
                                               allow_any_host |-> allow]]
             /\ batch' = NoteSubsystemsChanged(batch)
             /\ iter' = NoteIterChanged(iter, "subsystems")
        ELSE UNCHANGED <<slist, slife, sstate, sattr, batch, iter>>

\* Target::add_subsystem: the creation primitive returns a handle, which is
\* linked into the target in the Inactive state, or null.
AddSubsystem ==
  /\ OneMoreCall
  /\ Yielded /\ HaveTarget
  /\ \E nqn \in AppNqnChoices : \E h \in CreateSubsystem(nqn) :
       Create("add_subsystem", nqn, "NVMe", h)
  /\ UNCHANGED <<targets, tlist, thandle, tdestroys, at, rs, conv>>

\* Target::enable_discovery: add_subsystem with the discovery name and
\* subtype, its error returned by ?, then allow_any_host(true).
EnableDiscovery ==
  /\ OneMoreCall
  /\ Yielded /\ HaveTarget
  /\ \E h \in CreateSubsystem(DiscoveryNqn) :
       Create("enable_discovery", DiscoveryNqn, "Discovery", h)
  /\ UNCHANGED <<targets, tlist, thandle, tdestroys, at, rs, conv>>


\* ------------------------------------------------------------------------
\* Target::remove_subsystem
\* ------------------------------------------------------------------------
RsIdle ==
  [pc |-> "idle", s |-> Null, rc |-> 0, stateAtCall |-> "Inactive",
   slot |-> None, selfFired |-> 0, cbFired |-> 0, cbPending |-> FALSE,
   resolved |-> 0, result |-> None]

\* The destroy primitive accepts an Inactive subsystem with no operation in
\* flight and rejects any other.
CanDestroy(s) ==
  /\ slife[s] = "live"
  /\ sstate[s] = "Inactive"
  /\ ~(batch.cbPending /\ batch.cur = s)

\* Return values of the destroy primitive: 0 (destroyed synchronously),
\* -EINPROGRESS (the callback follows), or a rejection.
DestroyReturns(s) == IF CanDestroy(s) THEN {0, -EINPROGRESS} ELSE FailureStatuses

\* The guard of the second match arm (line 174).
IsInProgress_Never(e) == FALSE
IsInProgress(e) == e = Err(EINPROGRESS)

\* What the first match arm resolves the token with (line 170).
SelfCompletion_Status == Err(EINPROGRESS)
SelfCompletion == complete_with_ok

\* The registration closure of remove_subsystem (lines 160-179) on the
\* primitive's return value rc: what it returns to the Promise and whether it
\* invokes the completion function itself.
RemoveRegistration_AlwaysComplete(rc) ==
  IF to_result(rc) = Ok \/ IsInProgress(to_result(rc))
  THEN [ret |-> Ok, selfComplete |-> TRUE]
  ELSE [ret |-> to_result(rc), selfComplete |-> FALSE]
RemoveRegistration_NeverComplete(rc) ==
  IF to_result(rc) = Ok \/ IsInProgress(to_result(rc))
  THEN [ret |-> Ok, selfComplete |-> FALSE]
  ELSE [ret |-> to_result(rc), selfComplete |-> FALSE]
RemoveRegistration_ErrSwallowed(rc) ==
  IF to_result(rc) = Ok
  THEN [ret |-> Ok, selfComplete |-> TRUE]
  ELSE [ret |-> Ok, selfComplete |-> FALSE]
RemoveRegistration(rc) ==
  IF to_result(rc) = Ok
  THEN [ret |-> Ok, selfComplete |-> TRUE]
  ELSE IF IsInProgress(to_result(rc))
  THEN [ret |-> Ok, selfComplete |-> FALSE]
  ELSE [ret |-> to_result(rc), selfComplete |-> FALSE]

\* Promise, first poll: a registration that returned Err resolves the await
\* with that error; otherwise the await resolves with the token's slot if a
\* completion has filled it, and suspends (None) if not.
PromiseFirstPoll(ret, slot) == IF ret # Ok THEN ret ELSE slot

\* remove_subsystem is called on a subsystem of the target: the first poll
\* runs the registration, the primitive returns rc.
RemoveSubsystemCall ==
  /\ OneMoreCall
  /\ Yielded /\ HaveTarget
  /\ rs.pc = "idle"
  /\ \E s \in SubsysIds : \E rc \in DestroyReturns(s) :
       /\ slife[s] = "live"
       /\ LET reg == RemoveRegistration(rc)
              slot == IF reg.selfComplete THEN SelfCompletion ELSE None
              ready == PromiseFirstPoll(reg.ret, slot)
          IN rs' = [pc |-> IF ready = None THEN "pending" ELSE "done",
                    s |-> s, rc |-> rc, stateAtCall |-> sstate[s],
                    slot |-> slot,
                    selfFired |-> IF reg.selfComplete THEN 1 ELSE 0,
                    cbFired |-> 0,
                    cbPending |-> (rc = -EINPROGRESS),
                    resolved |-> IF ready = None THEN 0 ELSE 1,
                    result |-> ready]
       /\ slist' = IF rc = 0 THEN Unlink(slist, s) ELSE slist
       /\ slife' = [slife EXCEPT ![s] = IF rc = 0 THEN "destroyed"
                                        ELSE IF rc = -EINPROGRESS THEN "destroying"
                                        ELSE @]
       /\ batch' = IF rc = 0 THEN NoteSubsystemsChanged(batch) ELSE batch
       /\ iter' = IF rc = 0 THEN NoteIterChanged(iter, "subsystems") ELSE iter
  /\ UNCHANGED <<targets, tlist, thandle, tdestroys, sstate, at, conv, sattr, created>>

\* The collaborator finishes an asynchronous destroy and fires the callback
\* it was given, complete_with_ok (line 164).
DestroyCallback ==
  /\ Yielded
  /\ rs.cbPending
  /\ rs' = [rs EXCEPT !.cbPending = FALSE,
                      !.cbFired = @ + 1,
                      !.slot = complete_with_ok]
  /\ slist' = Unlink(slist, rs.s)
  /\ slife' = [slife EXCEPT ![rs.s] = "destroyed"]
  /\ batch' = NoteSubsystemsChanged(batch)
  /\ iter' = NoteIterChanged(iter, "subsystems")
  /\ UNCHANGED <<targets, tlist, thandle, tdestroys, sstate, at, calls, conv, sattr, created>>

\* The woken task polls the Promise again and returns its result.
RemoveSubsystemResume ==
  /\ Yielded
  /\ rs.pc = "pending"
  /\ rs.slot # None
  /\ rs' = [rs EXCEPT !.pc = "done", !.resolved = @ + 1, !.result = rs.slot]
  /\ UNCHANGED <<targets, tlist, thandle, tdestroys, slist, slife, sstate, at, batch, iter, calls, conv, sattr, created>>

\* The caller takes the result; another remove_subsystem may follow.
RemoveSubsystemReturn ==
  /\ Yielded
  /\ rs.pc = "done"
  /\ ~rs.cbPending
  /\ rs' = RsIdle
  /\ UNCHANGED <<targets, tlist, thandle, tdestroys, slist, slife, sstate, at, batch, iter, calls, conv, sattr, created>>

\* ------------------------------------------------------------------------
\* Target::start_subsystems, stop_subsystems, pause_subsystems,
\* resume_subsystems
\* ------------------------------------------------------------------------
Apis == {"start_subsystems", "stop_subsystems", "pause_subsystems", "resume_subsystems"}

\* The Subsystem operation each method applies (lines 190, 199, 208, 217).
BatchOp_Swapped(api) ==
  CASE api = "start_subsystems" -> "stop"
    [] api = "stop_subsystems" -> "start"
    [] api = "pause_subsystems" -> "resume"
    [] api = "resume_subsystems" -> "pause"
BatchOp(api) ==
  CASE api = "start_subsystems" -> "start"
    [] api = "stop_subsystems" -> "stop"
    [] api = "pause_subsystems" -> "pause"
    [] api = "resume_subsystems" -> "resume"

\* The collaborator's state machine: the state an operation is legal in and
\* the state it leads to.
OpFrom(op) ==
  CASE op = "start" -> "Inactive"
    [] op = "stop" -> "Active"
    [] op = "pause" -> "Active"
    [] op = "resume" -> "Paused"
OpTo(op) ==
  CASE op = "start" -> "Active"
    [] op = "stop" -> "Inactive"
    [] op = "pause" -> "Paused"
    [] op = "resume" -> "Active"

BatchIdle ==
  [pc |-> "idle", api |-> "none", cursor |-> Null, cur |-> Null,
   attempted |-> <<>>, outcomes |-> <<>>, stable |-> TRUE,
   slot |-> None, cbPending |-> FALSE, result |-> None, uaf |-> FALSE,
   rejected |-> 0, inflight |-> 0]

\* The .await on the operation (line 190): the loop goes on only when the
\* operation's Promise has resolved.
Awaits_FireAndForget == FALSE
Awaits == TRUE

\* Whether the loop submits the operation on a subsystem, given whether the
\* subsystem is in a state the operation is legal in: the loop calls the
\* operation on every subsystem and looks at no state (lines 189-190).
Submits_OnlyLegal(legal) == legal
Submits(legal) == TRUE

\* The ? after the await (line 190): an Err leaves the loop and the method.
Aborts_Never(res) == FALSE
Aborts(res) == res # Ok

\* The loop body after the operation's Promise has resolved with res.
AfterOp(b, res) ==
  [b EXCEPT !.outcomes = Append(@, res),
            !.slot = None,
            !.pc = IF Aborts(res) THEN "done" ELSE "loop",
            !.result = IF Aborts(res) THEN res ELSE None]

\* A batch method is called: self.subsystems() takes the first handle.
BatchCall ==
  /\ OneMoreCall
  /\ Yielded /\ HaveTarget
  /\ batch.pc = "idle"
  /\ \E api \in Apis :
       batch' = [BatchIdle EXCEPT !.pc = "loop", !.api = api,
                                  !.cursor = GetFirst(slist)]
  /\ UNCHANGED <<targets, tlist, thandle, tdestroys, slist, slife, sstate, at, rs, iter, conv, sattr, created>>

\* The for loop finds the cursor null: the method returns Ok (lines 193).
BatchLoopEnd ==
  /\ batch.pc = "loop"
  /\ batch.cursor = Null
  /\ batch' = [batch EXCEPT !.pc = "done", !.result = Ok]
  /\ UNCHANGED <<targets, tlist, thandle, tdestroys, slist, slife, sstate, at, rs, iter, calls, conv, sattr, created>>

\* One turn of the for loop: the iterator hands out the cursor and advances
\* it, the operation is submitted on the handle and its Promise polled once.
BatchLoopStep ==
  /\ batch.pc = "loop"
  /\ batch.cursor # Null
  /\ LET cur == batch.cursor
         op == BatchOp(batch.api)
     IN \E nxt \in GetNextSet(slist, cur, SubsysIds, Range(batch.attempted) \cup {cur}) :
          LET b1 == [batch EXCEPT !.cur = cur, !.cursor = nxt,
                                  !.attempted = Append(@, cur),
                                  !.uaf = @ \/ Dangling(cur)]
          IN \/ \* the handle is freed: the operation reads freed memory
                /\ Dangling(cur)
                /\ \E st \in CompletionStatuses : batch' = AfterOp(b1, to_result(st))
                /\ sstate' = sstate
             \/ \* the operation is legal: it completes inline
                /\ slife[cur] = "live" /\ sstate[cur] = OpFrom(op)
                /\ \E st \in CompletionStatuses :
                     /\ batch' = AfterOp(b1, complete_with_status(st))
                     /\ sstate' = IF st = 0 THEN [sstate EXCEPT ![cur] = OpTo(op)] ELSE sstate
             \/ \* the operation is legal: its completion is deferred
                /\ slife[cur] = "live" /\ sstate[cur] = OpFrom(op)
                /\ batch' = [b1 EXCEPT !.pc = IF Awaits THEN "pending" ELSE "loop",
                                        !.cbPending = TRUE,
                                        !.inflight = @ + 1]
                /\ sstate' = sstate
             \/ \* the collaborator rejects the operation
                /\ ~Dangling(cur)
                /\ ~(slife[cur] = "live" /\ sstate[cur] = OpFrom(op))
                /\ IF Submits(FALSE)
                   THEN \E st \in FailureStatuses :
                          batch' = AfterOp([b1 EXCEPT !.rejected = st], to_result(st))
                   ELSE batch' = [batch EXCEPT !.cur = cur, !.cursor = nxt]
                /\ sstate' = sstate
  /\ UNCHANGED <<targets, tlist, thandle, tdestroys, slist, slife, at, rs, iter, calls, conv, sattr, created>>

\* The collaborator fires the deferred completion of the operation.
BatchCallback ==
  /\ batch.cbPending
  /\ \E st \in CompletionStatuses :
       /\ batch' = [batch EXCEPT !.cbPending = FALSE,
                                  !.inflight = @ - 1,
                                  !.slot = complete_with_status(st)]
       /\ sstate' = IF st = 0
                    THEN [sstate EXCEPT ![batch.cur] = OpTo(BatchOp(batch.api))]
                    ELSE sstate
  /\ UNCHANGED <<targets, tlist, thandle, tdestroys, slist, slife, at, rs, iter, calls, conv, sattr, created>>

\* The woken task polls the operation's Promise again and goes on.
BatchResume ==
  /\ batch.pc = "pending"
  /\ batch.slot # None
  /\ batch' = AfterOp(batch, batch.slot)
  /\ UNCHANGED <<targets, tlist, thandle, tdestroys, slist, slife, sstate, at, rs, iter, calls, conv, sattr, created>>

\* The caller takes the result; another batch method may follow.
BatchReturn ==
  /\ batch.pc = "done"
  /\ batch' = BatchIdle
  /\ UNCHANGED <<targets, tlist, thandle, tdestroys, slist, slife, sstate, at, rs, iter, calls, conv, sattr, created>>

\* ------------------------------------------------------------------------
\* Iterators: targets(), Target::transports(), Target::subsystems()
\* ------------------------------------------------------------------------
IterKinds == {"targets", "transports", "subsystems"}

Collection(kind) ==
  CASE kind = "targets" -> targets
    [] kind = "transports" -> tlist
    [] kind = "subsystems" -> slist

Handles(kind) ==
  CASE kind = "targets" -> TargetIds
    [] kind = "transports" -> TransportIds
    [] kind = "subsystems" -> SubsysIds

IterNone ==
  [kind |-> "none", cursor |-> Null, yielded |-> <<>>,
   stable |-> TRUE, ended |-> FALSE, late |-> FALSE, gets |-> 0]

\* Targets::next on a null cursor (lines 246-247): None is returned and the
\* cursor is left as it is.
IterAtEnd_Restart(kind) == GetFirst(Collection(kind))
IterAtEnd(kind) == Null

\* Targets::next on a non-null cursor (lines 249-255): the cursor is
\* captured, advanced to nxt, and the captured handle is the item.
IterAdvance_YieldNext(cursor, nxt) == [item |-> nxt, cursor |-> nxt]
IterAdvance(cursor, nxt) == [item |-> cursor, cursor |-> nxt]

\* targets() (lines 261-263) and its siblings: a fresh iterator at the
\* collection's first handle.
IterNew ==
  /\ OneMoreCall
  /\ Yielded
  /\ iter.kind = "none"
  /\ \E kind \in IterKinds :
       /\ kind = "targets" \/ HaveTarget
       /\ iter' = [IterNone EXCEPT !.kind = kind,
                                   !.cursor = GetFirst(Collection(kind))]
  /\ UNCHANGED <<targets, tlist, thandle, tdestroys, slist, slife, sstate, at, rs, batch, conv, sattr, created>>

\* Targets::next (lines 245-257).
IterNext ==
  /\ Yielded
  /\ iter.kind # "none"
  /\ IF iter.cursor = Null
     THEN iter' = [iter EXCEPT !.ended = TRUE,
                               !.late = @ \/ iter.ended,
                               !.cursor = IterAtEnd(iter.kind)]
     ELSE \E nxt \in GetNextSet(Collection(iter.kind), iter.cursor, Handles(iter.kind),
                                Range(iter.yielded) \cup {iter.cursor}) :
            iter' = [iter EXCEPT
                       !.cursor = IterAdvance(iter.cursor, nxt).cursor,
                       !.yielded = Append(@, IterAdvance(iter.cursor, nxt).item),
                       !.gets = @ + 1]
  /\ UNCHANGED <<targets, tlist, thandle, tdestroys, slist, slife, sstate, at, rs, batch, calls, conv, sattr, created>>

\* The caller lets go of the iterator.
IterDrop ==
  /\ Yielded
  /\ iter.kind # "none"
  /\ iter' = IterNone
  /\ UNCHANGED <<targets, tlist, thandle, tdestroys, slist, slife, sstate, at, rs, batch, calls, conv, sattr, created>>

\* ------------------------------------------------------------------------
\* Status conversion: Target::listen and the macros
\* ------------------------------------------------------------------------
ConvNone == [macro |-> "none", raw |-> 0, res |-> None]

\* Target::listen (lines 224-234): the listen primitive returns raw and
\* to_result! converts it.
Listen ==
  /\ HaveTarget
  /\ \E raw \in RawStatuses : \E res \in ToResultOutcomes(raw) :
       conv' = [macro |-> "to_result", raw |-> raw, res |-> res]
  /\ UNCHANGED <<targets, tlist, thandle, tdestroys, slist, slife, sstate, at, rs, batch, iter, calls, sattr, created>>

\* to_result_size! applied to a primitive's return value raw.
ToResultSize ==
  /\ \E raw \in RawStatuses : \E res \in ToResultSizeOutcomes(raw) :
       conv' = [macro |-> "to_result_size", raw |-> raw, res |-> res]
  /\ UNCHANGED <<targets, tlist, thandle, tdestroys, slist, slife, sstate, at, rs, batch, iter, calls, sattr, created>>

\* ------------------------------------------------------------------------
\* Specification
\* ------------------------------------------------------------------------
Init ==
  /\ targets \in {<<>>, [i \in TargetIds |-> i]}
  /\ tlist = <<>>
  /\ thandle = [t \in TransportIds |-> "none"]
  /\ tdestroys = [t \in TransportIds |-> 0]
  /\ slist = <<>>
  /\ slife = [s \in SubsysIds |-> "free"]
  /\ sstate = [s \in SubsysIds |-> "Inactive"]
  /\ at = AtIdle
  /\ rs = RsIdle
  /\ batch = BatchIdle
  /\ iter = IterNone
  /\ calls = 0
  /\ conv = ConvNone
  /\ sattr = [s \in SubsysIds |-> AttrNone]
  /\ created = CreatedNone

Next ==
  \/ AddTransportCall
  \/ AddTransportCallback
  \/ AddTransportResume
  \/ TransportDestroyCallback
  \/ AddTransportResumeDestroy
  \/ AddTransportReturn
  \/ AddSubsystem
  \/ EnableDiscovery
  \/ RemoveSubsystemCall
  \/ DestroyCallback
  \/ RemoveSubsystemResume
  \/ RemoveSubsystemReturn
  \/ BatchCall
  \/ BatchLoopEnd
  \/ BatchLoopStep
  \/ BatchCallback
  \/ BatchResume
  \/ BatchReturn
  \/ IterNew
  \/ IterNext
  \/ IterDrop

Spec == Init /\ [][Next]_vars

\* The reactor runs what is runnable: it fires the completions the
\* collaborator owes, polls woken tasks again, and lets a running task run
\* on to its next suspension.
Fairness ==
  /\ WF_vars(AddTransportCallback)
  /\ WF_vars(AddTransportResume)
  /\ WF_vars(TransportDestroyCallback)
  /\ WF_vars(AddTransportResumeDestroy)
  /\ WF_vars(DestroyCallback)
  /\ WF_vars(RemoveSubsystemResume)
  /\ WF_vars(BatchLoopEnd)
  /\ WF_vars(BatchLoopStep)
  /\ WF_vars(BatchCallback)
  /\ WF_vars(BatchResume)

\* The tasks without the iterators' callers.  The iterator operations read
\* the collections and write iter and the call count alone, and no other
\* operation reads iter, so they take nothing from and add nothing to what the
\* tasks can do.
TaskNext ==
  \/ AddTransportCall
  \/ AddTransportCallback
  \/ AddTransportResume
  \/ TransportDestroyCallback
  \/ AddTransportResumeDestroy
  \/ AddTransportReturn
  \/ AddSubsystem
  \/ EnableDiscovery
  \/ RemoveSubsystemCall
  \/ DestroyCallback
  \/ RemoveSubsystemResume
  \/ RemoveSubsystemReturn
  \/ BatchCall
  \/ BatchLoopEnd
  \/ BatchLoopStep
  \/ BatchCallback
  \/ BatchResume
  \/ BatchReturn

FairSpec == Init /\ [][TaskNext]_vars /\ Fairness

\* The status conversions on their own, over the raw values.
StatusNext ==
  \/ Listen
  \/ ToResultSize

StatusSpec == Init /\ [][StatusNext]_vars

\* ------------------------------------------------------------------------
\* Properties
\* ------------------------------------------------------------------------

\* C1: for every call of add_transport and remove_subsystem, whether the
\* primitive completes inside the registration, later, or rejects the
\* request, the completion function of each token is invoked at most once
\* and the await is resolved exactly once by the time the call has returned;
\* remove_subsystem never both invokes complete_with_ok itself and receives
\* the collaborator's callback.
C1_CompletionAtMostOnce ==
  /\ at.fired <= 1
  /\ at.dfired <= 1
  /\ rs.selfFired + rs.cbFired <= 1
  /\ at.resolved <= 1 /\ at.dresolved <= 1 /\ rs.resolved <= 1
  /\ at.pc \in {"done", "panicked"} => at.resolved = 1
  /\ rs.pc = "done" => rs.resolved = 1

C1_Witness ==
  /\ at.pc = "done" /\ at.fired = 1
  /\ rs.pc = "done" /\ rs.cbFired = 1

\* C2: a Promise whose single completion is invoked inside the registration
\* resolves with the same result as one whose completion is invoked later
\* with the same status: remove_subsystem resolves with Ok both ways, and
\* add_transport takes the arm its completion status decides both ways.
C2_InlineEqualsDeferred ==
  /\ (rs.resolved = 1 /\ rs.selfFired + rs.cbFired = 1) => rs.result = Ok
  /\ (rs.pc # "idle" /\ rs.rc = 0) => (rs.pc = "done" /\ rs.result = Ok)
  /\ (at.resolved = 1 /\ at.status = 0) => (at.pc = "done" /\ at.result = Ok)
  /\ (at.resolved = 1 /\ at.status # 0) =>
       /\ at.pc \in {"destroy_pending", "done", "panicked"}
       /\ at.result \in {None, Err(-at.status)}

C2_Witness ==
  /\ rs.pc = "done" /\ rs.selfFired = 1 /\ rs.result = Ok
  /\ at.pc = "done" /\ ~at.inline /\ at.fired = 1 /\ at.result = Ok

\* C3: when add_transport has returned Ok the transport is linked into the
\* target and has not been destroyed; when it has returned Err the transport
\* has been destroyed exactly once and is not linked into the target.  No
\* transport is destroyed twice, or destroyed while the target owns it.
C3_TransportOwnership ==
  /\ \A t \in TransportIds : tdestroys[t] <= 1
  /\ \A t \in Range(tlist) : tdestroys[t] = 0
  /\ (at.pc = "done" /\ at.result = Ok) =>
       (at.t \in Range(tlist) /\ tdestroys[at.t] = 0)
  /\ (at.pc = "done" /\ at.result # Ok) =>
       (at.t \notin Range(tlist) /\ tdestroys[at.t] = 1)

C3_Witness ==
  /\ at.pc = "done" /\ at.result # Ok /\ tdestroys[at.t] = 1
  /\ tlist # <<>>

\* C4: when the add's completion carries an error status e and the explicit
\* destroy succeeds, add_transport returns Err(e).
C4_OriginalError ==
  (at.pc = "done" /\ at.status < 0 /\ at.dslot = Ok) => at.result = Err(-at.status)

C4_Witness ==
  at.pc = "done" /\ at.status = -ENOMEM /\ at.dslot = Ok /\ at.dfired = 1

\* C5: under the reactor's fairness, a remove_subsystem whose destroy
\* primitive found the subsystem Inactive with nothing in flight, and so
\* returned 0 or the in-progress status, eventually returns Ok.
C5_RemoveEventuallyOk ==
  (rs.pc # "idle" /\ rs.stateAtCall = "Inactive" /\ rs.rc \in {0, -EINPROGRESS})
    ~> (rs.pc = "done" /\ rs.result = Ok)

C5_Witness ==
  rs.pc = "done" /\ rs.rc = -EINPROGRESS /\ rs.stateAtCall = "Inactive" /\ rs.result = Ok

\* C6 as stated: once the destroy primitive has reported the in-progress
\* status, the call is not left waiting for the destruction's completion.
C6_NotAwaited ==
  ~(rs.rc = -EINPROGRESS /\ rs.pc = "pending" /\ rs.cbPending)

\* C6 as amended: when the destroy primitive reports the in-progress status,
\* remove_subsystem treats it as a successful submission and stays suspended
\* until the destruction's completion callback fires; it returns Ok, and only
\* after that callback.
C6_AwaitsCompletion ==
  (rs.pc # "idle" /\ rs.rc = -EINPROGRESS) =>
    /\ rs.cbFired = 0 => (rs.pc = "pending" /\ rs.cbPending /\ rs.result = None)
    /\ rs.pc = "done" => (rs.cbFired = 1 /\ rs.result = Ok)

C6_Witness ==
  rs.rc = -EINPROGRESS /\ rs.pc = "pending" /\ rs.cbPending /\ slife[rs.s] = "destroying"

\* C7: when the destroy primitive returns a negative status other than the
\* in-progress status, remove_subsystem returns Err with that status's
\* magnitude at once: no completion is invoked and none is awaited.
C7_RejectionSurfaced ==
  (rs.pc # "idle" /\ rs.rc < 0 /\ rs.rc # -EINPROGRESS) =>
    /\ rs.pc = "done"
    /\ rs.result = Err(-rs.rc)
    /\ rs.selfFired = 0 /\ rs.cbFired = 0 /\ ~rs.cbPending

C7_Witness ==
  rs.pc = "done" /\ rs.rc = -EAGAIN /\ rs.stateAtCall = "Active"

\* The state each batch method leaves a subsystem in.
ApiTo(api) ==
  CASE api = "start_subsystems" -> "Active"
    [] api = "stop_subsystems" -> "Inactive"
    [] api = "pause_subsystems" -> "Paused"
    [] api = "resume_subsystems" -> "Active"
    [] OTHER -> "none"

\* C8: a batch method that has returned, over subsystems s1..sn that did not
\* change during the call, has attempted exactly a prefix s1..sk in iteration
\* order; the operations on s1..s(k-1) succeeded and those subsystems are in
\* their new state; if the call returned an error it is the error of sk, and
\* if it returned Ok then k = n and every operation succeeded.
C8_FirstFailureAborts ==
  (batch.pc = "done" /\ batch.stable) =>
    LET k == Len(batch.attempted)
    IN /\ k <= Len(slist)
       /\ batch.attempted = SubSeq(slist, 1, k)
       /\ Len(batch.outcomes) = k
       /\ \A i \in 1..k : i < k => batch.outcomes[i] = Ok
       /\ \A i \in 1..k : batch.outcomes[i] = Ok => sstate[slist[i]] = ApiTo(batch.api)
       /\ IF batch.result = Ok
          THEN k = Len(slist) /\ \A i \in 1..k : batch.outcomes[i] = Ok
          ELSE k >= 1 /\ batch.result.tag = "Err" /\ batch.outcomes[k] = batch.result

C8_Witness ==
  /\ batch.pc = "done" /\ batch.stable
  /\ Len(slist) = 3 /\ Len(batch.attempted) = 2
  /\ batch.result.tag = "Err"
  /\ sstate[slist[1]] = "Active" /\ sstate[slist[3]] = "Inactive"

IsPrefix(p, q) == Len(p) <= Len(q) /\ p = SubSeq(q, 1, Len(p))

\* C9: an iterator over a collection that has not changed since the iterator
\* was requested has yielded a prefix of the collection in linkage order, and
\* once its cursor is null or next() has returned end-of-sequence it has
\* yielded exactly the collection, each resource once; over an empty
\* collection it yields nothing.
C9_IteratorYieldsCollection ==
  (iter.kind # "none" /\ iter.stable) =>
    /\ IsPrefix(iter.yielded, Collection(iter.kind))
    /\ iter.cursor = Null => iter.yielded = Collection(iter.kind)
    /\ iter.ended => (iter.cursor = Null /\ iter.yielded = Collection(iter.kind))
    /\ iter.cursor # Null =>
         (Len(iter.yielded) < Len(Collection(iter.kind))
          /\ iter.cursor = Collection(iter.kind)[Len(iter.yielded) + 1])

C9_Witness ==
  iter.kind = "targets" /\ iter.stable /\ iter.ended /\ iter.yielded = <<1, 2>>

\* The transitions each batch method may cause.
AllowedTransitions ==
  {<<"start_subsystems", "Inactive", "Active">>,
   <<"stop_subsystems", "Active", "Inactive">>,
   <<"pause_subsystems", "Active", "Paused">>,
   <<"resume_subsystems", "Paused", "Active">>}

\* C10: a subsystem's state is always Inactive, Active or Paused; a created
\* subsystem is Inactive; a state changes only Inactive->Active under start,
\* Active->Inactive under stop, Active->Paused under pause and
\* Paused->Active under resume; destroy is accepted on an Inactive subsystem
\* with nothing in flight and rejected, with an error returned, on an Active
\* one.
C10_StateMachine ==
  /\ [](\A s \in SubsysIds : sstate[s] \in SubsysStates)
  /\ [][\A s \in SubsysIds :
          /\ (slife[s] = "free" /\ slife'[s] = "live") => sstate'[s] = "Inactive"
          /\ sstate'[s] # sstate[s] =>
               (slife[s] = "live" /\ <<batch.api, sstate[s], sstate'[s]>> \in AllowedTransitions)
          /\ (rs.pc = "idle" /\ rs'.pc # "idle" /\ rs'.s = s) =>
               /\ (sstate[s] = "Inactive" /\ ~(batch.cbPending /\ batch.cur = s))
                    => (rs'.rc \in {0, -EINPROGRESS} /\ rs'.result \in {None, Ok})
               /\ sstate[s] = "Active"
                    => (rs'.pc = "done" /\ rs'.result.tag = "Err" /\ slife'[s] = "live")
     ]_vars

C10_Witness ==
  /\ rs.pc = "done" /\ rs.stateAtCall = "Active" /\ rs.result.tag = "Err"
  /\ \E s \in SubsysIds : sstate[s] = "Paused"

\* C11: a batch method submits its operation also on a subsystem whose state
\* the operation is not legal in (the loop makes no check of its own), and
\* the call then returns the collaborator's rejection status as its error.
C11_RejectionVerbatim ==
  /\ [](batch.rejected # 0 =>
          /\ batch.pc = "done"
          /\ batch.result.tag = "Err"
          /\ batch.result.val > 0 /\ batch.result.val + batch.rejected = 0
          /\ batch.attempted[Len(batch.attempted)] = batch.cur)
  /\ [][(/\ batch.pc = "loop" /\ batch.cursor # Null
         /\ ~Dangling(batch.cursor)
         /\ ~(slife[batch.cursor] = "live"
              /\ sstate[batch.cursor] = OpFrom(BatchOp(batch.api))))
        => (/\ batch'.attempted = Append(batch.attempted, batch.cursor)
            /\ batch'.rejected \in FailureStatuses)]_vars

C11_Witness ==
  /\ batch.pc = "done" /\ batch.api = "start_subsystems"
  /\ batch.rejected = -ENOMEM /\ batch.result = Err(ENOMEM)
  /\ sstate[batch.cur] = "Active" /\ batch.attempted = <<batch.cur>>

\* C12: to_result maps 0 to Ok(()), a negative v to Err with magnitude |v|,
\* and a positive v to the unreachable panic; to_result_size maps v >= 0 to
\* Ok(v) and a negative v to Err with magnitude |v|.
C12_StatusMapping ==
  /\ conv.macro = "to_result" =>
       /\ conv.raw = 0 => conv.res = Ok
       /\ conv.raw < 0 =>
            (conv.res.tag = "Err" /\ conv.res.val > 0 /\ conv.res.val + conv.raw = 0)
       /\ conv.raw > 0 => conv.res = Unreachable
  /\ conv.macro = "to_result_size" =>
       /\ conv.raw >= 0 => conv.res = OkSize(conv.raw)
       /\ conv.raw < 0 =>
            (conv.res.tag = "Err" /\ conv.res.val > 0 /\ conv.res.val + conv.raw = 0)

\* C19: for every negative raw i32, the least included, both macros produce
\* an Err whose value is strictly positive and is the absolute value of the
\* raw status.
C19_NegationNeverOverflows ==
  (conv.macro # "none" /\ conv.raw < 0) =>
    /\ conv.res.tag = "Err"
    /\ conv.res.val > 0
    /\ conv.res.val + conv.raw = 0

\* C13: add_subsystem returns Err(ENOMEM) and adds nothing to the Target when
\* the creation primitive returns a null handle; otherwise it returns the
\* Subsystem, which is Inactive and a member of the Target's subsystems.
C13_AddSubsystem ==
  /\ [](created.api = "add_subsystem" =>
          /\ created.h = Null => created.res = Err(ENOMEM)
          /\ created.h # Null => created.res = Ok)
  /\ [][(created' # created /\ created'.api = "add_subsystem") =>
          IF created'.h = Null
          THEN UNCHANGED <<slist, slife, sstate, sattr>>
          ELSE /\ created'.h \notin Range(slist)
               /\ slist' = Append(slist, created'.h)
               /\ slife'[created'.h] = "live"
               /\ sstate'[created'.h] = "Inactive"]_vars
  /\ [][Len(slist') > Len(slist) =>
          (created'.res = Ok /\ created'.h = slist'[Len(slist')])]_vars

C13_Witness ==
  /\ created = [api |-> "add_subsystem", h |-> Null, res |-> Err(ENOMEM)]
  /\ Len(slist) = 1
  /\ sattr[slist[1]].subtype = "NVMe" /\ sstate[slist[1]] = "Inactive"

\* C14: enable_discovery creates a subsystem with the discovery NQN and the
\* discovery subtype, Inactive and allowing any host; a subsystem keeps its
\* name, subtype and host setting while it lives, so once started the
\* discovery subsystem is Active under the same name.  If the creation fails,
\* enable_discovery returns the error and configures nothing.
C14_EnableDiscovery ==
  /\ [][(created' # created /\ created'.api = "enable_discovery") =>
          IF created'.h = Null
          THEN /\ created'.res = Err(ENOMEM)
               /\ UNCHANGED <<slist, slife, sstate, sattr>>
          ELSE /\ created'.res = Ok
               /\ created'.h \in Range(slist') \ Range(slist)
               /\ sstate'[created'.h] = "Inactive"
               /\ sattr'[created'.h] = [nqn |-> DiscoveryNqn, subtype |-> "Discovery",
                                        allow_any_host |-> TRUE]]_vars
  /\ [][\A s \in SubsysIds : slife[s] # "free" => sattr'[s] = sattr[s]]_vars
  /\ []((created.api = "enable_discovery" /\ created.res = Ok
          /\ slife[created.h] = "live") =>
            /\ sattr[created.h] = [nqn |-> DiscoveryNqn, subtype |-> "Discovery",
                                   allow_any_host |-> TRUE]
            /\ sstate[created.h] \in SubsysStates)

C14_Witness ==
  /\ at.pc = "done" /\ at.inline /\ at.result = Ok /\ at.t \in Range(tlist)
  /\ created.api = "enable_discovery" /\ created.res = Ok
  /\ batch.pc = "done" /\ batch.api = "start_subsystems" /\ batch.result = Ok
  /\ slife[created.h] = "live" /\ sstate[created.h] = "Active"
  /\ sattr[created.h] = [nqn |-> DiscoveryNqn, subtype |-> "Discovery",
                         allow_any_host |-> TRUE]

\* C15: once next() has returned the end of the sequence, every later next()
\* on the same iterator returns the end again and calls get-next no more,
\* whatever happens to the collection: nothing is yielded and the cursor
\* stays null.
C15_EndIsPermanent ==
  /\ [](iter.ended => iter.cursor = Null)
  /\ [][(iter.ended /\ iter'.kind = iter.kind) =>
          /\ iter'.ended
          /\ iter'.cursor = Null
          /\ iter'.yielded = iter.yielded
          /\ iter'.gets = iter.gets]_vars

C15_Witness ==
  /\ iter.kind = "subsystems" /\ iter.ended /\ iter.late
  /\ iter.cursor = Null /\ iter.gets = Len(iter.yielded)
  /\ Len(slist) > Len(iter.yielded)

\* C16: within one call of a batch method at most one of its operations is in
\* flight: the loop submits the next operation only when every operation it
\* submitted before has completed and resolved, and it submits them in the
\* order of the collection.
C16_OneInFlight ==
  /\ batch.inflight \in {0, 1}
  /\ batch.inflight = 1 =>
       (batch.pc = "pending" /\ batch.cbPending /\ batch.attempted # <<>>
        /\ batch.attempted[Len(batch.attempted)] = batch.cur)
  /\ batch.pc = "loop" => (batch.inflight = 0 /\ batch.slot = None)
  /\ Len(batch.attempted) - Len(batch.outcomes) = (IF batch.pc = "pending" THEN 1 ELSE 0)
  /\ batch.stable => IsPrefix(batch.attempted, slist)

C16_Witness ==
  /\ batch.pc = "pending" /\ batch.inflight = 1 /\ batch.stable
  /\ Len(batch.attempted) = 2 /\ batch.outcomes = <<Ok>>
  /\ batch.attempted = SubSeq(slist, 1, 2)

\* C17: add_transport submits the explicit destroy of the transport only
\* after the add's completion has fired with an error, never while the add is
\* in flight and never after a successful add; the call returns an error only
\* after the destroy's completion has fired; a destroy that completes with an
\* error ends the call in a panic and no Result is returned.
C17_TeardownOrder ==
  /\ (at.dcbPending \/ at.dfired > 0) =>
       (at.fired = 1 /\ at.status < 0 /\ ~at.cbPending /\ at.slot.tag = "Err"
        /\ at.resolved = 1)
  /\ at.pc = "add_pending" => (~at.dcbPending /\ at.dfired = 0)
  /\ (at.pc = "done" /\ at.result = Ok) =>
       (at.status = 0 /\ ~at.dcbPending /\ at.dfired = 0
        /\ thandle[at.t] = "forgotten" /\ tdestroys[at.t] = 0)
  /\ (at.pc = "done" /\ at.result # Ok) =>
       (at.result.tag = "Err" /\ at.dfired = 1 /\ ~at.dcbPending
        /\ at.dstatus = 0 /\ at.dresolved = 1)
  /\ (at.dfired > 0 /\ at.dstatus < 0) =>
       (at.pc \in {"destroy_pending", "panicked"} /\ at.result = None)
  /\ at.pc = "panicked" => (at.dfired = 1 /\ at.dstatus < 0 /\ at.result = None)

C17_Witness ==
  /\ at.pc = "panicked" /\ ~at.inline /\ at.status = -ENOMEM
  /\ at.dstatus = -EAGAIN /\ at.dresolved = 1 /\ at.result = None

\* C18: whatever the interleaving of a batch method with remove_subsystem on
\* the same Target, the batch method never hands the collaborator a subsystem
\* handle whose destruction has completed: none was used so far, and the
\* cursor the loop holds does not refer to a destroyed subsystem.
C18_NoDestroyedHandle ==
  /\ ~batch.uaf
  /\ (batch.pc \in {"loop", "pending"} /\ batch.cursor # Null) =>
       slife[batch.cursor] # "destroyed"

\* C20: when the collaborator fires the completion of every request it has
\* accepted, every call of add_transport ends: a call that is suspended, on
\* the add or on the teardown, is eventually through, with a Result (Ok, or
\* the error once the teardown is done) or with the panic of a failed
\* teardown.
C20_AddTransportTerminates ==
  /\ (at.pc \in {"add_pending", "destroy_pending"}) ~> (at.pc \in {"done", "panicked"})
  /\ [](at.pc = "done" => at.result.tag \in {"Ok", "Err"})

C20_Witness ==
  /\ at.pc = "done" /\ ~at.inline /\ at.result = Err(EAGAIN)
  /\ at.dfired = 1 /\ at.dresolved = 1 /\ thandle[at.t] = "consumed"

====
